---- MODULE Spec2Model ----
(***************************************************************************)
(* Model of grgym/envs/gr_env.py: the GrEnv harness (process lifecycle,    *)
(* run-state machine, bridge connect loop, step protocol, signal handler). *)
(* The control thread is modelled statement by statement (pc), so that a   *)
(* SIGINT/SIGTERM handler can preempt it between any two statements.       *)
(***************************************************************************)
EXTENDS Integers, Sequences, FiniteSets, TLC

VARIABLES
    args,           \* self.args: the configuration toggles read at construction
    pc,             \* position of the control thread
    gr_state,       \* self.gr_state ("UNSET" until the attribute is first assigned)
    gr_process,     \* self.gr_process: "None" or "Popen"
    procLive,       \* the spawned external process is running (spawned, not killed)
    gr_process_io,  \* self.gr_process_io: "None" or "dict" (the dict of the two log handles)
    logs,           \* per log handle: "unopened", "open", or "None" (closed and cleared)
    bridgeUp,       \* bridge.start() has succeeded and bridge.close() not called since
    handlers,       \* handle_termination is registered for SIGINT/SIGTERM
    op,             \* public operation the control thread is executing
    prevOp,         \* public operation that returned before the current one began
    lastOp,         \* last lifecycle event that completed
    pre,            \* harness state at entry of the current operation
    calls,          \* scenario/bridge/timer calls made by the current operation, in order
    action,         \* argument of the current step()
    obs, reward, done, info,   \* locals of step() / reset()
    ret,            \* value returned by the last operation
    nRefused,       \* ConnectionRefusedError raised by bridge.start() in the current reset()
    nOther,         \* other exceptions raised by bridge.start() in the current reset()
    kills,          \* gr_process.kill() calls issued in the current operation
    ioCloses,       \* log handle close() calls issued in the current operation
    spawns,         \* successful subprocess.Popen calls
    sigAt,          \* position at which a signal preempted the control thread
    exitStatus      \* status passed to sys.exit, "None" while running

vars == <<args, pc, gr_state, gr_process, procLive, gr_process_io, logs, bridgeUp,
          handlers, op, prevOp, lastOp, pre, calls, action, obs, reward, done, info,
          ret, nRefused, nOther, kills, ioCloses, spawns, sigAt, exitStatus>>

harness == <<gr_state, gr_process, procLive, gr_process_io, logs, bridgeUp>>
locals  == <<action, obs, reward, done, info>>
counts  == <<nRefused, nOther, kills, ioCloses>>

\* ---- bounds ----
MaxRefused == 2

\* ---- values the external collaborators can produce ----
Actions    == {"a1", "a2"}
ObsVals    == {"o1", "o2"}
RewardVals == {"r1"}
InfoVals   == {"i1"}
NoRet      == <<"none">>

LogKeys == {"stdout", "stderr"}

\* class RadioProgramState(Enum)
RadioProgramState == {"INACTIVE", "RUNNING", "PAUSED", "STOPPED"}

\* GrEnv.check_is_alive: False for INACTIVE, True for RUNNING, falls off the end
\* (None) for anything else.
check_is_alive(s) ==
    IF s = "INACTIVE" THEN "False"
    ELSE IF s = "RUNNING" THEN "True"
    ELSE "None"

\* Python truth value of check_is_alive()'s result in `if self.check_is_alive():`
Alive(s) == check_is_alive(s) = "True"

\* `self.gr_process_io is dict`: identity of the handle dict with the class dict.
\* gr_process_io holds None or a dict instance, never the class itself.
IoIsDictClass(io) == io = "dict_class"

Snapshot == [gr_state |-> gr_state, gr_process |-> gr_process, procLive |-> procLive,
             gr_process_io |-> gr_process_io, logs |-> logs, bridgeUp |-> bridgeUp]

\* ------------------------------------------------------------------------
\* GrEnv.__init__ up to the creation of the bridge (lines 31-43)
Init ==
    /\ args \in [radio_programs_compile_execute : BOOLEAN,
                 eventbased : BOOLEAN, simulate : BOOLEAN]
    /\ pc = "c_compile"
    /\ gr_state = "UNSET"
    /\ gr_process = "None"
    /\ procLive = FALSE
    /\ gr_process_io = "None"
    /\ logs = [k \in LogKeys |-> "unopened"]
    /\ bridgeUp = FALSE
    /\ handlers = FALSE
    /\ op = "__init__"
    /\ prevOp = "none"
    /\ lastOp = "none"
    /\ pre = [gr_state |-> "UNSET", gr_process |-> "None", procLive |-> FALSE,
              gr_process_io |-> "None", logs |-> [k \in LogKeys |-> "unopened"],
              bridgeUp |-> FALSE]
    /\ calls = <<>>
    /\ action = "none"
    /\ obs = "0" /\ reward = "0" /\ done = "False" /\ info = ""
    /\ ret = NoRet
    /\ nRefused = 0 /\ nOther = 0 /\ kills = 0 /\ ioCloses = 0
    /\ spawns = 0
    /\ sigAt = "none"
    /\ exitStatus = "None"

\* __init__ line 46 with the toggle off: neither compile nor spawn
InitSkipPrograms ==
    /\ pc = "c_compile"
    /\ ~args.radio_programs_compile_execute
    /\ pc' = "c_state"
    /\ UNCHANGED <<args, harness, handlers, op, prevOp, lastOp, pre, calls, locals, ret,
                   counts, spawns, sigAt, exitStatus>>

\* variant of CompileRadioProgram: the exception of sh.grcc is swallowed
CompileRadioProgram_Swallows ==
    /\ pc = "c_compile"
    /\ args.radio_programs_compile_execute
    /\ \E ok \in BOOLEAN :
         /\ pc' = "c_spawn"
         /\ calls' = Append(calls, <<"grcc", IF ok THEN "ok" ELSE "raise">>)
    /\ UNCHANGED <<args, harness, handlers, op, prevOp, lastOp, pre, locals, ret,
                   counts, spawns, sigAt, exitStatus>>

\* _compile_radio_program: sh.grcc succeeds, or its exception is re-raised and
\* leaves __init__
CompileRadioProgram ==
    /\ pc = "c_compile"
    /\ args.radio_programs_compile_execute
    /\ \E ok \in BOOLEAN :
         /\ pc' = IF ok THEN "c_spawn" ELSE "aborted"
         /\ calls' = Append(calls, <<"grcc", IF ok THEN "ok" ELSE "raise">>)
    /\ UNCHANGED <<args, harness, handlers, op, prevOp, lastOp, pre, locals, ret,
                   counts, spawns, sigAt, exitStatus>>

\* variant of StartRadioProgram: RUNNING is assigned before Popen is attempted
StartRadioProgram_StateFirst ==
    /\ pc = "c_spawn"
    /\ IF gr_process_io = "None"
       THEN gr_process_io' = "dict" /\ logs' = [k \in LogKeys |-> "open"]
       ELSE UNCHANGED <<gr_process_io, logs>>
    /\ gr_state' = "RUNNING"
    /\ \E ok \in BOOLEAN :
         IF ok
         THEN /\ gr_process' = "Popen"
              /\ procLive' = TRUE
              /\ spawns' = spawns + 1
              /\ ret' = <<"True">>
              /\ lastOp' = "spawn"
         ELSE /\ ret' = <<"False">>
              /\ UNCHANGED <<gr_process, procLive, spawns, lastOp>>
    /\ pc' = "c_state"
    /\ UNCHANGED <<args, bridgeUp, handlers, op, prevOp, pre, calls, locals, counts,
                   sigAt, exitStatus>>

\* _start_radio_program: open the log files once, Popen; OSError -> return False
StartRadioProgram ==
    /\ pc = "c_spawn"
    /\ IF gr_process_io = "None"
       THEN gr_process_io' = "dict" /\ logs' = [k \in LogKeys |-> "open"]
       ELSE UNCHANGED <<gr_process_io, logs>>
    /\ \E ok \in BOOLEAN :
         IF ok
         THEN /\ gr_process' = "Popen"
              /\ procLive' = TRUE
              /\ gr_state' = "RUNNING"
              /\ spawns' = spawns + 1
              /\ ret' = <<"True">>
              /\ lastOp' = "spawn"
         ELSE /\ ret' = <<"False">>
              /\ UNCHANGED <<gr_process, procLive, gr_state, spawns, lastOp>>
    /\ pc' = "c_state"
    /\ UNCHANGED <<args, bridgeUp, handlers, op, prevOp, pre, calls, locals, counts,
                   sigAt, exitStatus>>

\* __init__ lines 52-64: load the scenario, self.gr_state = INACTIVE, fetch spaces
InitState ==
    /\ pc = "c_state"
    /\ gr_state' = "INACTIVE"
    /\ calls' = calls \o << <<"get_action_space", "">>, <<"get_observation_space", "">> >>
    /\ pc' = "c_signal"
    /\ UNCHANGED <<args, gr_process, procLive, gr_process_io, logs, bridgeUp, handlers,
                   op, prevOp, lastOp, pre, locals, ret, counts, spawns, sigAt, exitStatus>>

\* __init__ lines 66-67: register handle_termination; construction returns
InitSignals ==
    /\ pc = "c_signal"
    /\ handlers' = TRUE
    /\ pc' = "idle"
    /\ ret' = NoRet
    /\ UNCHANGED <<args, harness, op, prevOp, lastOp, pre, calls, locals, counts, spawns,
                   sigAt, exitStatus>>

\* ------------------------------------------------------------------------
\* a public method is called on the constructed harness
Enter(name, first) ==
    /\ pc = "idle"
    /\ pc' = first
    /\ op' = name
    /\ prevOp' = op
    /\ pre' = Snapshot
    /\ calls' = <<>>
    /\ nRefused' = 0 /\ nOther' = 0 /\ kills' = 0 /\ ioCloses' = 0
    /\ ret' = NoRet

\* a public method returns to the caller
Return(value) ==
    /\ pc' = "idle"
    /\ ret' = value

\* ---- GrEnv.step ----
\* lines 73-78: obs = 0, reward = 0, done = False, info = ''
StepEnter ==
    /\ \E a \in Actions : action' = a
    /\ Enter("step", "s_check")
    /\ obs' = "0" /\ reward' = "0" /\ done' = "False" /\ info' = ""
    /\ UNCHANGED <<args, harness, handlers, lastOp, spawns, sigAt, exitStatus>>

\* variant of StepCheck: the liveness test is missing
StepCheck_NoGuard ==
    /\ pc = "s_check"
    /\ pc' = "s_exec"
    /\ UNCHANGED <<args, harness, handlers, op, prevOp, lastOp, pre, calls, locals,
                   ret, counts, spawns, sigAt, exitStatus>>

\* line 80: if self.check_is_alive()
StepCheck ==
    /\ pc = "s_check"
    /\ pc' = IF Alive(gr_state) THEN "s_exec" ELSE "s_warn"
    /\ UNCHANGED <<args, harness, handlers, op, prevOp, lastOp, pre, calls, locals,
                   ret, counts, spawns, sigAt, exitStatus>>

\* line 82: self.scenario.execute_actions(action)
StepExecute ==
    /\ pc = "s_exec"
    /\ calls' = Append(calls, <<"execute_actions", action>>)
    /\ pc' = "s_wait"
    /\ UNCHANGED <<args, harness, handlers, op, prevOp, lastOp, pre, locals,
                   ret, counts, spawns, sigAt, exitStatus>>

\* lines 84-86: if not eventbased: sleep(step_time)
StepWait ==
    /\ pc = "s_wait"
    /\ calls' = IF ~args.eventbased THEN Append(calls, <<"sleep", "step_time">>) ELSE calls
    /\ pc' = "s_collect"
    /\ UNCHANGED <<args, harness, handlers, op, prevOp, lastOp, pre, locals,
                   ret, counts, spawns, sigAt, exitStatus>>

\* lines 89-91: reward, done, info from the scenario
StepCollect ==
    /\ pc = "s_collect"
    /\ \E r \in RewardVals, d \in {"False", "True"}, i \in InfoVals :
         /\ reward' = r /\ done' = d /\ info' = i
         /\ calls' = calls \o << <<"get_reward", r>>, <<"get_done", d>>, <<"get_info", i>> >>
    /\ pc' = "s_sim"
    /\ UNCHANGED <<args, harness, handlers, op, prevOp, lastOp, pre, action, obs,
                   ret, counts, spawns, sigAt, exitStatus>>

\* lines 93-95: if simulate: self.scenario.sim_channel()
StepSimChannel ==
    /\ pc = "s_sim"
    /\ IF args.simulate
       THEN calls' = Append(calls, <<"sim_channel", "">>) /\ pc' = "s_flush"
       ELSE calls' = calls /\ pc' = "s_obs"
    /\ UNCHANGED <<args, harness, handlers, op, prevOp, lastOp, pre, locals,
                   ret, counts, spawns, sigAt, exitStatus>>

\* variant of StepFlush: the eventbased test of line 97 is missing
StepFlush_Always ==
    /\ pc = "s_flush"
    /\ \E o \in ObsVals :
         calls' = calls \o << <<"get_obs", o>>, <<"sleep", "sim_time">> >>
    /\ pc' = "s_obs"
    /\ UNCHANGED <<args, harness, handlers, op, prevOp, lastOp, pre, locals,
                   ret, counts, spawns, sigAt, exitStatus>>

\* lines 97-100: if not eventbased: get_obs() (result dropped), sleep(sim_time)
StepFlush ==
    /\ pc = "s_flush"
    /\ IF ~args.eventbased
       THEN \E o \in ObsVals :
              calls' = calls \o << <<"get_obs", o>>, <<"sleep", "sim_time">> >>
       ELSE calls' = calls
    /\ pc' = "s_obs"
    /\ UNCHANGED <<args, harness, handlers, op, prevOp, lastOp, pre, locals,
                   ret, counts, spawns, sigAt, exitStatus>>

\* variant of StepObs: the final read is made but its result is not kept
StepObs_DropsResult ==
    /\ pc = "s_obs"
    /\ \E o \in ObsVals : calls' = Append(calls, <<"get_obs", o>>)
    /\ pc' = "s_warn"
    /\ UNCHANGED <<args, harness, handlers, op, prevOp, lastOp, pre, locals,
                   ret, counts, spawns, sigAt, exitStatus>>

\* line 103: obs = self.scenario.get_obs()
StepObs ==
    /\ pc = "s_obs"
    /\ \E o \in ObsVals :
         /\ obs' = o
         /\ calls' = Append(calls, <<"get_obs", o>>)
    /\ pc' = "s_warn"
    /\ UNCHANGED <<args, harness, handlers, op, prevOp, lastOp, pre, action, reward,
                   done, info, ret, counts, spawns, sigAt, exitStatus>>

\* variant of StepWarn: a step on a dead harness also closes the bridge
StepWarn_ClosesBridge ==
    /\ pc = "s_warn"
    /\ calls' = IF ~Alive(gr_state) THEN Append(calls, <<"print", "dead_warning">>) ELSE calls
    /\ bridgeUp' = IF ~Alive(gr_state) THEN FALSE ELSE bridgeUp
    /\ pc' = "s_ret"
    /\ UNCHANGED <<args, gr_state, gr_process, procLive, gr_process_io, logs, handlers,
                   op, prevOp, lastOp, pre, locals, ret, counts, spawns, sigAt, exitStatus>>

\* lines 105-106: if not self.check_is_alive(): print warning
StepWarn ==
    /\ pc = "s_warn"
    /\ calls' = IF ~Alive(gr_state) THEN Append(calls, <<"print", "dead_warning">>) ELSE calls
    /\ pc' = "s_ret"
    /\ UNCHANGED <<args, harness, handlers, op, prevOp, lastOp, pre, locals,
                   ret, counts, spawns, sigAt, exitStatus>>

\* line 109: return (obs, reward, done, info)
StepReturn ==
    /\ pc = "s_ret"
    /\ Return(<<obs, reward, done, info>>)
    /\ UNCHANGED <<args, harness, handlers, op, prevOp, lastOp, pre, calls, locals,
                   counts, spawns, sigAt, exitStatus>>

\* ---- GrEnv.reset ----
ResetEnter ==
    /\ Enter("reset", "r_pre")
    /\ UNCHANGED <<args, harness, handlers, lastOp, locals, spawns, sigAt, exitStatus>>

\* line 113: self.scenario.reset(); line 115: error = True
ResetScenarioPre ==
    /\ pc = "r_pre"
    /\ calls' = Append(calls, <<"scenario.reset", "">>)
    /\ pc' = "r_start"
    /\ UNCHANGED <<args, harness, handlers, op, prevOp, lastOp, pre, locals,
                   ret, counts, spawns, sigAt, exitStatus>>

\* variant of ResetBridgeStart: every exception sets error = True
ResetBridgeStart_RetryAll ==
    /\ pc = "r_start"
    /\ \E outcome \in {"ok", "refused", "other"} :
         /\ calls' = Append(calls, <<"bridge.start", outcome>>)
         /\ CASE outcome = "ok" ->
                   /\ bridgeUp' = TRUE
                   /\ pc' = "r_running"
                   /\ UNCHANGED <<nRefused, nOther>>
              [] outcome = "refused" ->
                   /\ nRefused < MaxRefused
                   /\ nRefused' = nRefused + 1
                   /\ pc' = "r_backoff"
                   /\ UNCHANGED <<bridgeUp, nOther>>
              [] outcome = "other" ->
                   /\ nOther < MaxRefused
                   /\ nOther' = nOther + 1
                   /\ pc' = "r_start"
                   /\ UNCHANGED <<bridgeUp, nRefused>>
    /\ UNCHANGED <<args, gr_state, gr_process, procLive, gr_process_io, logs, handlers,
                   op, prevOp, lastOp, pre, locals, ret, kills, ioCloses, spawns,
                   sigAt, exitStatus>>

\* lines 116-123, 129: one pass of the loop: error = False; bridge.start();
\* ConnectionRefusedError sets error = True, any other exception is only logged
ResetBridgeStart ==
    /\ pc = "r_start"
    /\ \E outcome \in {"ok", "refused", "other"} :
         /\ calls' = Append(calls, <<"bridge.start", outcome>>)
         /\ CASE outcome = "ok" ->
                   /\ bridgeUp' = TRUE
                   /\ pc' = "r_running"
                   /\ UNCHANGED <<nRefused, nOther>>
              [] outcome = "refused" ->
                   /\ nRefused < MaxRefused
                   /\ nRefused' = nRefused + 1
                   /\ pc' = "r_backoff"
                   /\ UNCHANGED <<bridgeUp, nOther>>
              [] outcome = "other" ->
                   /\ nOther' = nOther + 1
                   /\ pc' = "r_running"
                   /\ UNCHANGED <<bridgeUp, nRefused>>
    /\ UNCHANGED <<args, gr_state, gr_process, procLive, gr_process_io, logs, handlers,
                   op, prevOp, lastOp, pre, locals, ret, kills, ioCloses, spawns,
                   sigAt, exitStatus>>

\* variant of ResetBackoff: the message is printed but the sleep is missing
ResetBackoff_NoSleep ==
    /\ pc = "r_backoff"
    /\ calls' = Append(calls, <<"print", IF args.radio_programs_compile_execute
                                         THEN "wait_automatic" ELSE "wait_manual">>)
    /\ pc' = "r_start"
    /\ UNCHANGED <<args, harness, handlers, op, prevOp, lastOp, pre, locals,
                   ret, counts, spawns, sigAt, exitStatus>>

\* variant of ResetBackoff: error is not set to True, so the loop is left
ResetBackoff_LeavesLoop ==
    /\ pc = "r_backoff"
    /\ calls' = calls \o
         << <<"print", IF args.radio_programs_compile_execute
                       THEN "wait_automatic" ELSE "wait_manual">>,
            <<"sleep", "10">> >>
    /\ pc' = "r_running"
    /\ UNCHANGED <<args, harness, handlers, op, prevOp, lastOp, pre, locals,
                   ret, counts, spawns, sigAt, exitStatus>>

\* lines 124-128: print the wait message for the configured mode, time.sleep(10);
\* error is True, so the loop runs again
ResetBackoff ==
    /\ pc = "r_backoff"
    /\ calls' = calls \o
         << <<"print", IF args.radio_programs_compile_execute
                       THEN "wait_automatic" ELSE "wait_manual">>,
            <<"sleep", "10">> >>
    /\ pc' = "r_start"
    /\ UNCHANGED <<args, harness, handlers, op, prevOp, lastOp, pre, locals,
                   ret, counts, spawns, sigAt, exitStatus>>

\* variant of ResetSetRunning: reset() starts the program again when it is gone
ResetSetRunning_Respawns ==
    /\ pc = "r_running"
    /\ gr_state' = "RUNNING"
    /\ IF args.radio_programs_compile_execute /\ ~procLive
       THEN gr_process' = "Popen" /\ procLive' = TRUE /\ spawns' = spawns + 1
       ELSE UNCHANGED <<gr_process, procLive, spawns>>
    /\ pc' = "r_post"
    /\ UNCHANGED <<args, gr_process_io, logs, bridgeUp, handlers,
                   op, prevOp, lastOp, pre, calls, locals, ret, counts,
                   sigAt, exitStatus>>

\* variant of ResetSetRunning: the assignment of line 131 is missing
ResetSetRunning_Skipped ==
    /\ pc = "r_running"
    /\ pc' = "r_post"
    /\ UNCHANGED <<args, harness, handlers, op, prevOp, lastOp, pre, calls, locals,
                   ret, counts, spawns, sigAt, exitStatus>>

\* line 131: self.gr_state = RadioProgramState.RUNNING
ResetSetRunning ==
    /\ pc = "r_running"
    /\ gr_state' = "RUNNING"
    /\ pc' = "r_post"
    /\ UNCHANGED <<args, gr_process, procLive, gr_process_io, logs, bridgeUp, handlers,
                   op, prevOp, lastOp, pre, calls, locals, ret, counts, spawns,
                   sigAt, exitStatus>>

\* lines 132-134: second scenario.reset(), re-fetch both space descriptors
ResetScenarioPost ==
    /\ pc = "r_post"
    /\ calls' = calls \o << <<"scenario.reset", "">>, <<"get_action_space", "">>,
                             <<"get_observation_space", "">> >>
    /\ pc' = "r_settle"
    /\ UNCHANGED <<args, harness, handlers, op, prevOp, lastOp, pre, locals,
                   ret, counts, spawns, sigAt, exitStatus>>

\* variant of ResetSettle: the eventbased test of line 136 is missing
ResetSettle_Always ==
    /\ pc = "r_settle"
    /\ calls' = Append(calls, <<"sleep", "sim_time">>)
    /\ pc' = "r_obs"
    /\ UNCHANGED <<args, harness, handlers, op, prevOp, lastOp, pre, locals,
                   ret, counts, spawns, sigAt, exitStatus>>

\* lines 136-137: if not eventbased: sleep(sim_time)
ResetSettle ==
    /\ pc = "r_settle"
    /\ calls' = IF ~args.eventbased THEN Append(calls, <<"sleep", "sim_time">>) ELSE calls
    /\ pc' = "r_obs"
    /\ UNCHANGED <<args, harness, handlers, op, prevOp, lastOp, pre, locals,
                   ret, counts, spawns, sigAt, exitStatus>>

\* line 138: obs = self.scenario.get_obs()
ResetObs ==
    /\ pc = "r_obs"
    /\ \E o \in ObsVals :
         /\ obs' = o
         /\ calls' = Append(calls, <<"get_obs", o>>)
    /\ pc' = "r_ret"
    /\ UNCHANGED <<args, harness, handlers, op, prevOp, lastOp, pre, action, reward,
                   done, info, ret, counts, spawns, sigAt, exitStatus>>

\* line 140: return obs
ResetReturn ==
    /\ pc = "r_ret"
    /\ Return(<<obs>>)
    /\ lastOp' = "reset"
    /\ UNCHANGED <<args, harness, handlers, op, prevOp, pre, calls, locals,
                   counts, spawns, sigAt, exitStatus>>

\* ---- GrEnv.close ----
CloseEnter ==
    /\ Enter("close", "cl_bridge")
    /\ UNCHANGED <<args, harness, handlers, lastOp, locals, spawns, sigAt, exitStatus>>

\* variant of CloseBridge: the bridge is closed only when alive
CloseBridge_OnlyWhenAlive ==
    /\ pc = "cl_bridge"
    /\ IF Alive(gr_state)
       THEN bridgeUp' = FALSE /\ calls' = Append(calls, <<"bridge.close", "">>)
       ELSE UNCHANGED <<bridgeUp, calls>>
    /\ pc' = "cl_check"
    /\ UNCHANGED <<args, gr_state, gr_process, procLive, gr_process_io, logs, handlers,
                   op, prevOp, lastOp, pre, locals, ret, counts, spawns, sigAt, exitStatus>>

\* line 147: self.bridge.close()
CloseBridge ==
    /\ pc = "cl_bridge"
    /\ bridgeUp' = FALSE
    /\ calls' = Append(calls, <<"bridge.close", "">>)
    /\ pc' = "cl_check"
    /\ UNCHANGED <<args, gr_state, gr_process, procLive, gr_process_io, logs, handlers,
                   op, prevOp, lastOp, pre, locals, ret, counts, spawns, sigAt, exitStatus>>

\* line 148: if self.check_is_alive(): ... self._stop_radio_program()
CloseCheck ==
    /\ pc = "cl_check"
    /\ pc' = IF Alive(gr_state) THEN "st_check" ELSE "cl_ret"
    /\ UNCHANGED <<args, harness, handlers, op, prevOp, lastOp, pre, calls, locals,
                   ret, counts, spawns, sigAt, exitStatus>>

\* variant of CloseSetInactive: close() records STOPPED instead of INACTIVE
CloseSetInactive_Stopped ==
    /\ pc = "cl_state"
    /\ gr_state' = "STOPPED"
    /\ pc' = "cl_ret"
    /\ UNCHANGED <<args, gr_process, procLive, gr_process_io, logs, bridgeUp, handlers,
                   op, prevOp, lastOp, pre, calls, locals, ret, counts, spawns,
                   sigAt, exitStatus>>

\* line 151: self.gr_state = RadioProgramState.INACTIVE
CloseSetInactive ==
    /\ pc = "cl_state"
    /\ gr_state' = "INACTIVE"
    /\ pc' = "cl_ret"
    /\ UNCHANGED <<args, gr_process, procLive, gr_process_io, logs, bridgeUp, handlers,
                   op, prevOp, lastOp, pre, calls, locals, ret, counts, spawns,
                   sigAt, exitStatus>>

\* close() returns
CloseReturn ==
    /\ pc = "cl_ret"
    /\ Return(NoRet)
    /\ lastOp' = "close"
    /\ UNCHANGED <<args, harness, handlers, op, prevOp, pre, calls, locals,
                   counts, spawns, sigAt, exitStatus>>

\* ---- GrEnv._stop_radio_program (terminate) ----
\* called directly by the owner of the harness
TerminateEnter ==
    /\ Enter("terminate", "st_check")
    /\ UNCHANGED <<args, harness, handlers, lastOp, locals, spawns, sigAt, exitStatus>>

\* where _stop_radio_program returns to: line 151 of close(), or its direct caller
AfterStop == IF op = "close" THEN "cl_state" ELSE "t_ret"

\* variant of StopCheck: the liveness test is missing
StopCheck_NoGuard ==
    /\ pc = "st_check"
    /\ pc' = "st_kill"
    /\ UNCHANGED <<args, harness, handlers, op, prevOp, lastOp, pre, calls, locals,
                   ret, counts, spawns, sigAt, exitStatus>>

\* line 195: if self.check_is_alive()
StopCheck ==
    /\ pc = "st_check"
    /\ pc' = IF Alive(gr_state) THEN "st_kill" ELSE AfterStop
    /\ UNCHANGED <<args, harness, handlers, op, prevOp, lastOp, pre, calls, locals,
                   ret, counts, spawns, sigAt, exitStatus>>

\* lines 198-199: kill the process if a handle is held
StopKill ==
    /\ pc = "st_kill"
    /\ IF gr_process # "None"
       THEN procLive' = FALSE /\ kills' = kills + 1
       ELSE UNCHANGED <<procLive, kills>>
    /\ pc' = "st_io"
    /\ UNCHANGED <<args, gr_state, gr_process, gr_process_io, logs, bridgeUp, handlers,
                   op, prevOp, lastOp, pre, calls, locals, ret, nRefused, nOther,
                   ioCloses, spawns, sigAt, exitStatus>>

\* number of handles the loop of lines 202-206 closes
OpenLogs(l) == Cardinality({k \in LogKeys : l[k] = "open"})

\* lines 204-206: close each handle that is not closed and replace it by None
CloseLogs(l) == [k \in LogKeys |-> IF l[k] = "open" THEN "None" ELSE l[k]]

\* lines 201-206: the log handles are closed only if the guard of line 201 holds
StopLogs ==
    /\ pc = "st_io"
    /\ IF gr_process_io # "None" /\ IoIsDictClass(gr_process_io)
       THEN logs' = CloseLogs(logs) /\ ioCloses' = ioCloses + OpenLogs(logs)
       ELSE UNCHANGED <<logs, ioCloses>>
    /\ pc' = "st_state"
    /\ UNCHANGED <<args, gr_state, gr_process, procLive, gr_process_io, bridgeUp, handlers,
                   op, prevOp, lastOp, pre, calls, locals, ret, nRefused, nOther,
                   kills, spawns, sigAt, exitStatus>>

\* line 207: self.gr_state = RadioProgramState.INACTIVE
StopSetInactive ==
    /\ pc = "st_state"
    /\ gr_state' = "INACTIVE"
    /\ pc' = AfterStop
    /\ UNCHANGED <<args, gr_process, procLive, gr_process_io, logs, bridgeUp, handlers,
                   op, prevOp, lastOp, pre, calls, locals, ret, counts, spawns,
                   sigAt, exitStatus>>

\* _stop_radio_program returns to its direct caller
TerminateReturn ==
    /\ pc = "t_ret"
    /\ Return(NoRet)
    /\ lastOp' = "terminate"
    /\ UNCHANGED <<args, harness, handlers, op, prevOp, pre, calls, locals,
                   counts, spawns, sigAt, exitStatus>>

\* ---- GrEnv.handle_termination ----
\* SIGINT/SIGTERM preempts the control thread wherever it is: self.close() runs
\* to completion (bridge.close(); if alive: _stop_radio_program(); INACTIVE),
\* then sys.exit(1)
HandleTermination ==
    /\ handlers
    /\ pc # "exited"
    /\ bridgeUp' = FALSE
    /\ calls' = Append(calls, <<"bridge.close", "">>)
    /\ IF Alive(gr_state)
       THEN /\ IF gr_process # "None"
               THEN procLive' = FALSE /\ kills' = kills + 1
               ELSE UNCHANGED <<procLive, kills>>
            /\ IF gr_process_io # "None" /\ IoIsDictClass(gr_process_io)
               THEN logs' = CloseLogs(logs) /\ ioCloses' = ioCloses + OpenLogs(logs)
               ELSE UNCHANGED <<logs, ioCloses>>
            /\ gr_state' = "INACTIVE"
       ELSE UNCHANGED <<procLive, kills, logs, ioCloses, gr_state>>
    /\ sigAt' = pc
    /\ pc' = "exited"
    /\ exitStatus' = "1"
    /\ UNCHANGED <<args, gr_process, gr_process_io, handlers, op, prevOp, lastOp, pre,
                   locals, ret, nRefused, nOther, spawns>>

\* ------------------------------------------------------------------------
Next ==
    \/ InitSkipPrograms \/ CompileRadioProgram \/ StartRadioProgram
    \/ InitState \/ InitSignals
    \/ StepEnter \/ StepCheck \/ StepExecute \/ StepWait \/ StepCollect
    \/ StepSimChannel \/ StepFlush \/ StepObs \/ StepWarn \/ StepReturn
    \/ ResetEnter \/ ResetScenarioPre \/ ResetBridgeStart \/ ResetBackoff
    \/ ResetSetRunning \/ ResetScenarioPost \/ ResetSettle \/ ResetObs \/ ResetReturn
    \/ CloseEnter \/ CloseBridge \/ CloseCheck \/ CloseSetInactive \/ CloseReturn
    \/ TerminateEnter \/ StopCheck \/ StopKill \/ StopLogs \/ StopSetInactive
    \/ TerminateReturn
    \/ HandleTermination

Spec == Init /\ [][Next]_vars

TypeOK ==
    /\ gr_state \in RadioProgramState \cup {"UNSET"}
    /\ gr_process \in {"None", "Popen"}
    /\ procLive \in BOOLEAN
    /\ bridgeUp \in BOOLEAN
    /\ nRefused \in 0..MaxRefused

\* ------------------------------------------------------------------------
\* Second specification: the RPC server lives in the program the harness starts.
\* When the harness is responsible for the program (compile-and-execute on) and
\* its process is not running, nothing listens on the RPC port and every
\* bridge.start() is refused; otherwise bridge.start() is refused at most
\* MaxRefused times per reset().  The control thread always executes its next
\* statement.

\* no RPC server can answer: the self-started program is not running
ServerGone == args.radio_programs_compile_execute /\ ~procLive

\* lines 116-123, 129 under that environment; refusals beyond MaxRefused are no
\* longer recorded in the call log
ResetBridgeStartLive ==
    /\ pc = "r_start"
    /\ IF ServerGone
       THEN /\ IF nRefused < MaxRefused
               THEN /\ calls' = Append(calls, <<"bridge.start", "refused">>)
                    /\ nRefused' = nRefused + 1
                    /\ pc' = "r_backoff"
               ELSE /\ pc' = "r_backoff_more"
                    /\ UNCHANGED <<calls, nRefused>>
            /\ UNCHANGED <<args, harness, handlers, op, prevOp, lastOp, pre, locals,
                           ret, nOther, kills, ioCloses, spawns, sigAt, exitStatus>>
       ELSE ResetBridgeStart

\* lines 124-128 for a refusal beyond MaxRefused: message, sleep, loop again
ResetBackoffMore ==
    /\ pc = "r_backoff_more"
    /\ pc' = "r_start"
    /\ UNCHANGED <<args, harness, handlers, op, prevOp, lastOp, pre, calls, locals,
                   ret, counts, spawns, sigAt, exitStatus>>

\* the statements of the control thread inside a method
ControlStep ==
    \/ InitSkipPrograms \/ CompileRadioProgram \/ StartRadioProgram
    \/ InitState \/ InitSignals
    \/ StepCheck \/ StepExecute \/ StepWait \/ StepCollect
    \/ StepSimChannel \/ StepFlush \/ StepObs \/ StepWarn \/ StepReturn
    \/ ResetScenarioPre \/ ResetBridgeStartLive \/ ResetBackoff \/ ResetBackoffMore
    \/ ResetSetRunning \/ ResetScenarioPost \/ ResetSettle \/ ResetObs \/ ResetReturn
    \/ CloseBridge \/ CloseCheck \/ CloseSetInactive \/ CloseReturn
    \/ StopCheck \/ StopKill \/ StopLogs \/ StopSetInactive
    \/ TerminateReturn

LiveNext ==
    \/ ControlStep
    \/ StepEnter \/ ResetEnter \/ CloseEnter \/ TerminateEnter
    \/ HandleTermination

LiveSpec == Init /\ [][LiveNext]_vars /\ WF_vars(ControlStep)

\* ------------------------------------------------------------------------
\* Properties
\* ------------------------------------------------------------------------

\* the control thread is between public operations and the last one was `name`
Returned(name) == pc = "idle" /\ op = name

\* indices of the calls to `name` in a call log
Idx(c, name) == {i \in 1..Len(c) : c[i][1] = name}

\* C1: whenever the run-state is RUNNING (between public operations), the harness
\* holds a live process handle and the bridge is established.
C1_RunningImpliesProcessAndBridge ==
    (pc = "idle" /\ gr_state = "RUNNING")
        => (gr_process # "None" /\ procLive /\ bridgeUp)

\* C2: between public operations, whenever the run-state is INACTIVE no spawned
\* process is still alive and the bridge is closed.
C2_InactiveImpliesNoProcessAndClosed ==
    (pc = "idle" /\ gr_state = "INACTIVE") => (~procLive /\ ~bridgeUp)

\* C3: in a step() entered alive, execute_actions(action) is the first call, the
\* reward/done/info reads follow it, sim_channel (made iff simulate) follows them,
\* and the last call is the get_obs whose value is returned.
C3_StepOrder ==
    (op = "step" /\ Alive(pre.gr_state)) =>
        LET rdi == Idx(calls, "get_reward") \cup Idx(calls, "get_done")
                     \cup Idx(calls, "get_info")
            sim == Idx(calls, "sim_channel")
            gob == Idx(calls, "get_obs")
        IN /\ \A i \in Idx(calls, "execute_actions") : i = 1 /\ calls[i][2] = action
           /\ \A i \in rdi : 1 \in Idx(calls, "execute_actions")
           /\ \A i \in Idx(calls, "get_reward"), j \in Idx(calls, "get_done") : i < j
           /\ \A i \in Idx(calls, "get_done"), j \in Idx(calls, "get_info") : i < j
           /\ \A j \in sim : args.simulate /\ Idx(calls, "get_info") # {}
                                /\ \A i \in rdi : i < j
           /\ \A j \in gob : Idx(calls, "get_info") # {} /\ \A i \in rdi : i < j
           /\ \A j \in gob : args.simulate => \E i \in sim : i < j
           /\ pc = "idle" =>
                /\ Len(calls) \in gob
                /\ ret = <<calls[Len(calls)][2], reward, done, info>>
                /\ (args.simulate <=> sim # {})

\* C3 witness: a step with simulate on and eventbased off has returned the value
\* of its final get_obs, which differs from the discarded one.
C3_Witness ==
    /\ Returned("step") /\ Alive(pre.gr_state)
    /\ args.simulate /\ ~args.eventbased
    /\ \E i \in Idx(calls, "get_obs") : calls[i][2] # ret[1]

\* C4: a step() entered while not alive makes no scenario call and no timed wait,
\* prints the dead-process warning and returns (0, 0, False, '').
C4_DeadStep ==
    (op = "step" /\ ~Alive(pre.gr_state) /\ pc # "exited") =>
        /\ \A i \in 1..Len(calls) : calls[i] = <<"print", "dead_warning">>
        /\ pc = "idle" =>
             /\ ret = <<"0", "0", "False", "">>
             /\ calls = << <<"print", "dead_warning">> >>

\* C4 witness: a step on a dead harness has returned, while the spawned process
\* was in fact running.
C4_Witness ==
    Returned("step") /\ ~Alive(pre.gr_state) /\ ret = <<"0", "0", "False", "">>
        /\ procLive

\* C5: between public operations check_is_alive() is True after a successful
\* spawn or reset, and False before any spawn and after terminate/close.
C5_AliveTracksLifecycle ==
    pc = "idle" =>
        /\ lastOp \in {"spawn", "reset"} => check_is_alive(gr_state) = "True"
        /\ lastOp \in {"none", "terminate", "close"} => check_is_alive(gr_state) = "False"

\* C6: when the signal handler has exited, the exit status is non-zero, the
\* bridge is closed and no spawned process is left running.
C6_ExitLeavesNothingRunning ==
    pc = "exited" => (exitStatus = "1" /\ ~bridgeUp /\ ~procLive)

\* positions of reset() after its connect loop
PastLoop == {"r_running", "r_post", "r_settle", "r_obs", "r_ret", "idle"}

Times(c, e) == Cardinality({i \in 1..Len(c) : c[i] = e})

\* C8: a reset() whose bridge.start() was refused k times and then succeeded has
\* printed k wait messages, slept 10 k times, called bridge.start() k+1 times,
\* ends RUNNING and returns the value of get_obs.
C8_RefusedThenSuccess ==
    (Returned("reset") /\ Times(calls, <<"bridge.start", "other">>) = 0) =>
        LET k == Times(calls, <<"bridge.start", "refused">>)
        IN /\ Cardinality(Idx(calls, "print")) = k
           /\ Times(calls, <<"print", IF args.radio_programs_compile_execute
                                      THEN "wait_automatic" ELSE "wait_manual">>) = k
           /\ Times(calls, <<"sleep", "10">>) = k
           /\ Cardinality(Idx(calls, "bridge.start")) = k + 1
           /\ Times(calls, <<"bridge.start", "ok">>) = 1
           /\ gr_state = "RUNNING"
           /\ calls[Len(calls)][1] = "get_obs"
           /\ ret = <<calls[Len(calls)][2]>>

\* C8 witness: reset() returned after two refusals and a success on the third
\* attempt.
C8_Witness ==
    /\ Returned("reset")
    /\ Times(calls, <<"bridge.start", "other">>) = 0
    /\ Times(calls, <<"bridge.start", "refused">>) = 2
    /\ bridgeUp

\* C9: after _stop_radio_program returns check_is_alive() is False; a call made
\* with the run-state INACTIVE (in particular a second call in a row) issues no
\* kill and leaves the harness state as it was.
C9_TerminateIdempotent ==
    Returned("terminate") =>
        /\ check_is_alive(gr_state) = "False"
        /\ prevOp = "terminate" => pre.gr_state = "INACTIVE"
        /\ pre.gr_state = "INACTIVE" => (kills = 0 /\ ioCloses = 0 /\ Snapshot = pre)

\* C9 witness: a second _stop_radio_program in a row has returned, the first
\* having killed the spawned process.
C9_Witness ==
    /\ Returned("terminate") /\ prevOp = "terminate"
    /\ gr_process = "Popen" /\ ~procLive /\ bridgeUp

\* C10: close() always calls bridge.close() first; from INACTIVE it kills nothing
\* and stays INACTIVE, from RUNNING it kills the held process and sets INACTIVE;
\* after it check_is_alive() is False, and a close() right after a close()
\* changes nothing.
C10_CloseSafe ==
    Returned("close") =>
        /\ Len(calls) = 1 /\ calls[1] = <<"bridge.close", "">>
        /\ ~bridgeUp
        /\ gr_state = "INACTIVE" /\ check_is_alive(gr_state) = "False"
        /\ pre.gr_state = "INACTIVE" => (kills = 0 /\ procLive = pre.procLive)
        /\ pre.gr_state = "RUNNING" =>
              (~procLive /\ kills = IF gr_process = "None" THEN 0 ELSE 1)
        /\ prevOp = "close" => Snapshot = pre

\* C10 witness: a close() right after a close() has returned on a harness whose
\* process had been spawned and killed.
C10_Witness ==
    /\ Returned("close") /\ prevOp = "close"
    /\ gr_process = "Popen" /\ ~procLive

\* number of calls to `name` in a call log
Calls(c, name) == Cardinality(Idx(c, name))

\* C11: a step() entered alive calls execute_actions, get_reward, get_done and
\* get_info once each and sim_channel once iff simulate; it waits not at all when
\* eventbased, else once (step_time) without simulate and twice (step_time, then
\* sim_time) with it; it calls get_obs twice when simulate and not eventbased,
\* else once.
C11_StepCallCounts ==
    (Returned("step") /\ Alive(pre.gr_state)) =>
        /\ Calls(calls, "execute_actions") = 1
        /\ Calls(calls, "get_reward") = 1
        /\ Calls(calls, "get_done") = 1
        /\ Calls(calls, "get_info") = 1
        /\ Calls(calls, "sim_channel") = IF args.simulate THEN 1 ELSE 0
        /\ Calls(calls, "sleep") =
              IF args.eventbased THEN 0 ELSE IF args.simulate THEN 2 ELSE 1
        /\ Times(calls, <<"sleep", "step_time">>) = IF args.eventbased THEN 0 ELSE 1
        /\ \A i \in Idx(calls, "sleep"), j \in Idx(calls, "sleep") :
              (calls[i][2] = "step_time" /\ calls[j][2] = "sim_time") => i < j
        /\ Calls(calls, "get_obs") =
              IF args.simulate /\ ~args.eventbased THEN 2 ELSE 1
        /\ Len(calls) = Calls(calls, "execute_actions") + Calls(calls, "get_reward")
              + Calls(calls, "get_done") + Calls(calls, "get_info")
              + Calls(calls, "sim_channel") + Calls(calls, "sleep")
              + Calls(calls, "get_obs")

\* C11 witness: an event-driven step with channel simulation has returned after
\* sim_channel, with no wait and a single get_obs.
C11_Witness ==
    /\ Returned("step") /\ Alive(pre.gr_state)
    /\ args.simulate /\ args.eventbased
    /\ Calls(calls, "sim_channel") = 1 /\ Calls(calls, "get_obs") = 1

\* scenario methods that change scenario state
Mutating == {"scenario.reset", "execute_actions", "sim_channel"}

\* C12 (as claimed): no state-mutating scenario method (reset, execute_actions,
\* sim_channel) is called while check_is_alive() is false.
C12_NoMutationWhenDead ==
    [][calls' # calls =>
         \A i \in 1..Len(calls') :
            (i > Len(calls) /\ calls'[i][1] \in Mutating) => Alive(gr_state)]_vars

\* C12 (amended): execute_actions and sim_channel are called only while
\* check_is_alive() is true; scenario.reset is called while it is false only as
\* the first statement of reset(), before the connect loop.
C12_OnlyPreConnectResetWhenDead ==
    [][calls' # calls =>
         \A i \in 1..Len(calls') :
            (i > Len(calls) /\ calls'[i][1] \in Mutating) =>
                \/ Alive(gr_state)
                \/ /\ calls'[i][1] = "scenario.reset"
                   /\ op = "reset" /\ pc = "r_pre" /\ calls = <<>>]_vars

\* C12 witness: reset() on a harness that is not alive has called
\* scenario.reset() and has not yet connected.
C12_Witness ==
    /\ op = "reset" /\ pc = "r_start"
    /\ pre.gr_state = "INACTIVE" /\ ~Alive(gr_state)
    /\ calls = << <<"scenario.reset", "">> >>

\* C13: when Popen fails, _start_radio_program returns False, records no process
\* handle and leaves the run-state as it was before the call.
C13_SpawnFailure ==
    [][(pc = "c_spawn" /\ spawns' = spawns) =>
          /\ ret' = <<"False">>
          /\ pc' = "c_state"
          /\ gr_state' = gr_state /\ gr_state' # "RUNNING"
          /\ gr_process' = gr_process /\ gr_process' = "None"
          /\ procLive' = procLive /\ ~procLive']_vars

\* C13 witness: _start_radio_program has returned False during construction, the
\* log files opened, no handle recorded and the run-state not RUNNING.
C13_Witness ==
    /\ pc = "c_state" /\ ret = <<"False">>
    /\ gr_process_io = "dict" /\ gr_process = "None" /\ gr_state # "RUNNING"

\* C14: when sh.grcc raises during construction, the exception leaves __init__
\* after that single attempt: no process is spawned, the run-state is never
\* RUNNING and no signal handler is registered.
C14_CompileFailureAborts ==
    (op = "__init__" /\ Times(calls, <<"grcc", "raise">>) > 0) =>
        /\ pc = "aborted"
        /\ calls = << <<"grcc", "raise">> >>
        /\ spawns = 0 /\ gr_process = "None" /\ ~procLive
        /\ gr_process_io = "None"
        /\ gr_state # "RUNNING"
        /\ ~handlers
        /\ ~bridgeUp

\* C14 witness: construction has been aborted by a failed compilation.
C14_Witness ==
    /\ pc = "aborted" /\ args.radio_programs_compile_execute
    /\ calls = << <<"grcc", "raise">> >> /\ spawns = 0 /\ ~handlers

\* C15: after _stop_radio_program has run from RUNNING on a harness that opened
\* its log files, both log handles have been closed, each exactly once, and
\* replaced by the closed sentinel.
C15_LogsClosedOnStop ==
    (pc = "idle" /\ op \in {"terminate", "close"} /\ pre.gr_state = "RUNNING"
       /\ pre.gr_process_io = "dict") =>
        /\ \A k \in LogKeys : logs[k] = "None"
        /\ ioCloses = 2

\* positions of __init__ at which self.gr_state may not have been assigned yet
BeforeStateAssigned == {"c_compile", "c_spawn", "c_state", "aborted"}

\* C16: the run-state is never PAUSED or STOPPED: once assigned it is INACTIVE or
\* RUNNING, it is assigned before construction returns, and check_is_alive()
\* then answers True or False, never None.
C16_OnlyInactiveOrRunning ==
    /\ gr_state \notin {"PAUSED", "STOPPED"}
    /\ gr_state \in {"UNSET", "INACTIVE", "RUNNING"}
    /\ gr_state = "UNSET" => pc \in BeforeStateAssigned
    /\ pc \notin BeforeStateAssigned =>
          /\ gr_state \in {"INACTIVE", "RUNNING"}
          /\ check_is_alive(gr_state) \in {"True", "False"}

\* C16 witness: after construction, a reset and a close that a signal preempted
\* just before its last assignment, the run-state is INACTIVE.
C16_Witness ==
    /\ pc = "exited" /\ sigAt = "cl_state"
    /\ op = "close" /\ prevOp = "reset"
    /\ gr_state = "INACTIVE"

\* C17: reset() calls scenario.reset() first, then bridge.start() (with its
\* retries), then sets RUNNING, then calls scenario.reset() again, fetches both
\* space descriptors, waits sim_time iff not eventbased, and calls get_obs, whose
\* value it returns; scenario.reset() is called exactly twice and get_obs once,
\* whatever the number of retries.
C17_ResetStages ==
    (op = "reset" /\ pc # "exited") =>
        LET n  == Len(calls)
            sr == Idx(calls, "scenario.reset")
            bs == Idx(calls, "bridge.start")
        IN /\ n > 0 => calls[1] = <<"scenario.reset", "">>
           /\ \A i \in bs : i > 1
           /\ \A i \in sr : i > 1 =>
                 /\ gr_state = "RUNNING"
                 /\ \E j \in bs : calls[j][2] # "refused"
                 /\ \A j \in bs : j < i
           /\ pc \in {"r_pre", "r_start", "r_backoff", "r_running"} =>
                 (Calls(calls, "scenario.reset") <= 1 /\ gr_state = pre.gr_state)
           /\ \A i \in Idx(calls, "get_action_space") \cup Idx(calls, "get_observation_space")
                     \cup Idx(calls, "get_obs") \cup {j \in 1..n : calls[j] = <<"sleep", "sim_time">>} :
                 \E j \in sr : j > 1 /\ j < i
           /\ pc = "idle" =>
                 LET s == n - (IF args.eventbased THEN 3 ELSE 4)
                 IN /\ sr = {1, s}
                    /\ calls[s + 1] = <<"get_action_space", "">>
                    /\ calls[s + 2] = <<"get_observation_space", "">>
                    /\ ~args.eventbased => calls[s + 3] = <<"sleep", "sim_time">>
                    /\ calls[n][1] = "get_obs"
                    /\ ret = <<calls[n][2]>>
                    /\ Calls(calls, "get_obs") = 1
                    /\ Times(calls, <<"sleep", "sim_time">>) = IF args.eventbased THEN 0 ELSE 1
                    /\ gr_state = "RUNNING"

\* C17 witness: an event-driven reset() has returned after one refused attempt,
\* with two scenario.reset() calls and no settle wait.
C17_Witness ==
    /\ Returned("reset") /\ args.eventbased
    /\ nRefused = 1 /\ nOther = 0
    /\ Calls(calls, "scenario.reset") = 2 /\ Calls(calls, "sleep") = 1

\* positions of reset() inside its connect loop
InLoop == {"r_start", "r_backoff", "r_backoff_more"}

\* C18: a reset() whose bridge.start() is refused only finitely often eventually
\* returns with the run-state RUNNING (unless a signal ends the process); a
\* reset() whose bridge.start() is refused forever stays in its connect loop and
\* does not change the run-state.
C18_ResetLiveness ==
    /\ (op = "reset" /\ pc = "r_pre" /\ ~ServerGone)
          ~> ((Returned("reset") /\ gr_state = "RUNNING") \/ pc = "exited")
    /\ [][(op = "reset" /\ pc \in InLoop /\ ServerGone) =>
            /\ pc' \in InLoop \cup {"exited"}
            /\ pc' # "exited" => (gr_state' = gr_state /\ gr_state' = pre.gr_state)]_vars

\* C18 witness: a reset() after a close() that killed the self-started process
\* is still in its connect loop after more than MaxRefused refusals.
C18_Witness ==
    /\ op = "reset" /\ pc = "r_backoff_more" /\ prevOp = "close"
    /\ gr_process = "Popen" /\ ServerGone
    /\ gr_state = "INACTIVE"

\* C19: a process is spawned, and a process handle recorded, only by the
\* _start_radio_program call of __init__, only with the compile-and-execute
\* toggle on, and at most once; no later operation or signal spawns or revives
\* a process.
C19_SpawnOnlyInConstruction ==
    /\ [](spawns <= 1 /\ (procLive => spawns = 1))
    /\ [][(spawns' # spawns \/ gr_process' # gr_process \/ (procLive' /\ ~procLive)) =>
            /\ pc = "c_spawn" /\ op = "__init__"
            /\ args.radio_programs_compile_execute
            /\ spawns = 0 /\ spawns' = 1]_vars

\* C19 witness: a reset() after the close() that killed the only spawned process
\* has returned with the run-state RUNNING and no live process.
C19_Witness ==
    /\ Returned("reset") /\ prevOp = "close"
    /\ gr_state = "RUNNING"
    /\ spawns = 1 /\ gr_process = "Popen" /\ ~procLive

\* C20: while step() runs and after it returns (no signal having preempted it),
\* the run-state, the process handle and process, the log handles and the
\* bridge's connection status are what they were when step() was entered, and
\* step() has issued no kill, no log close, no bridge.start and no bridge.close.
C20_StepFrame ==
    (op = "step" /\ pc # "exited") =>
        /\ gr_state = pre.gr_state
        /\ gr_process = pre.gr_process /\ procLive = pre.procLive
        /\ gr_process_io = pre.gr_process_io /\ logs = pre.logs
        /\ bridgeUp = pre.bridgeUp
        /\ kills = 0 /\ ioCloses = 0
        /\ Calls(calls, "bridge.start") = 0 /\ Calls(calls, "bridge.close") = 0

\* C20 witness: a step() on a harness stopped by _stop_radio_program has
\* returned with the bridge still established and the killed handle still held.
C20_Witness ==
    /\ Returned("step") /\ prevOp = "terminate"
    /\ ~Alive(gr_state) /\ bridgeUp
    /\ gr_process = "Popen" /\ ~procLive

====
